---- MODULE Spec2Model ----
(***************************************************************************)
(* Token ingestion of msal-browser: TokenCache.loadExternalTokens and its  *)
(* four helpers (loadAccount, loadIdToken, loadAccessToken,                *)
(* loadRefreshToken), writing through the BrowserCacheManager storage.     *)
(*                                                                         *)
(* Optional fields of the JavaScript objects are modelled as sequences of  *)
(* length 0 (undefined) or 1 (the value), so that "absent" and "present    *)
(* but falsy" ("" or 0) stay different inputs that the truthiness tests of *)
(* the code treat alike.                                                   *)
(***************************************************************************)
EXTENDS Integers, Sequences, FiniteSets, TLC

VARIABLES
    isBrowserEnvironment,  \* TokenCache.isBrowserEnvironment, set by the constructor
    storage,               \* the BrowserCacheManager: one keyed collection per entity type
    now,                   \* the wall clock in seconds, as last read
    calls,                 \* number of loadExternalTokens calls made so far
    last,                  \* the most recent call: inputs, outcome, writes, storage before
    prev,                  \* the call before it
    activeAccount,         \* the active-account marker the BrowserCacheManager keeps
    keystore,              \* the keys the crypto object keeps in its key store
    logout,                \* the clearCacheOnLogout call of the interaction client
    interactionClient,     \* the interaction client: its constructor argument and correlation id
    baseRequest,           \* the most recent initializeBaseRequest call, and the ids issued so far
    silent,                \* the acquireToken call of the silent auth-code client
    tasks,                 \* the ingestion calls of concurrent tasks: where each one stands
    running,               \* the ingestion call that is on the stack, if one is
    oplog                  \* the storage writes of those calls, in the order they were made

\* the state of the TokenCache besides the storage
cacheVars == <<isBrowserEnvironment, now, calls, last, prev>>

\* the state initializeBaseRequest and acquireToken work on
requestVars == <<interactionClient, baseRequest, silent>>

\* the ingestion calls of concurrent tasks
taskVars == <<tasks, running, oplog>>

\* the state the interaction client works on, besides the storage
clientVars == <<activeAccount, keystore, logout, requestVars, taskVars>>

vars == <<isBrowserEnvironment, storage, now, calls, last, prev, clientVars>>

----------------------------------------------------------------------------
(* Bounds *)

\* longest request.scopes array
MaxScopes == 2

\* latest clock reading (the clock starts at 1)
MaxTime == 2

----------------------------------------------------------------------------
(* Optional values and JavaScript truthiness *)

None == <<>>

Some(x) == <<x>>

\* !!v for an optional string: undefined and "" are falsy
TruthyStr(v) == v # None /\ v[1] # ""

\* !!v for an optional number: undefined and 0 are falsy
TruthyNum(v) == v # None /\ v[1] # 0

----------------------------------------------------------------------------
(* Errors: BrowserAuthError.createUnableToLoadTokenError(message) *)

MissingIdToken == "Please ensure server response includes id token."

MissingAccountOrAuthority == "Please provide a request with an account or a request with authority."

MissingClientInfo == "Please provide clientInfo in the response or options."

UnresolvedIdentity == "Unexpected missing homeAccountId"

MissingExpiresIn == "Please ensure server response includes expires_in value."

MissingExtendedExpiresOn == "Please provide an extendedExpiresOn value in the options."

MissingExpiry == {MissingExpiresIn, MissingExtendedExpiresOn}

UnsupportedEnvironment == "loadExternalTokens is designed to work in browser environments only."

\* what a storage setter throws when the write fails
StorageFailure == "storage write failed"

----------------------------------------------------------------------------
(* Collaborators of msal-common, at their interface *)

\* this.config.auth.clientId
clientId == "client-id"

\* String.prototype.toLowerCase on the strings of the model
Lower(s) == CASE s = "Read" -> "read" [] OTHER -> s

\* the scope names a request may carry
ScopeNames == {"read", "Read", "write"}

\* the stable order of canonical scope names
ScopeRank(s) == CASE s = "read" -> 1 [] s = "write" -> 2 [] OTHER -> 3

RECURSIVE SortScopes(_)
\* the scopes of a set, one after the other in their stable order
SortScopes(S) ==
    IF S = {} THEN <<>>
    ELSE LET m == CHOOSE x \in S : \A y \in S : ScopeRank(x) <= ScopeRank(y)
         IN  <<m>> \o SortScopes(S \ {m})

\* new ScopeSet(scopes).printScopes(): the canonical form of a scope array,
\* deduplicated, case-insensitive and stably ordered
printScopes(scopes) == SortScopes({Lower(scopes[i]) : i \in DOMAIN scopes})

\* the claims AuthToken parses out of a raw ID token
AuthToken(idToken) ==
    CASE idToken = "id-token-1" -> [sub |-> "sub-1", tid |-> "tenant-1"]
      [] OTHER -> [sub |-> "", tid |-> ""]

\* buildClientInfo: the uid and utid a client-info string decodes to
buildClientInfo(clientInfo) ==
    CASE clientInfo = "client-info-options" -> [uid |-> "uid-o", utid |-> "utid-o"]
      [] clientInfo = "client-info-response" -> [uid |-> "uid-r", utid |-> "utid-r"]
      [] OTHER -> [uid |-> "", utid |-> ""]

\* `${uid}.${utid}`
JoinClientInfo(info) ==
    CASE info.uid = "uid-o" /\ info.utid = "utid-o" -> "uid-o.utid-o"
      [] info.uid = "uid-r" /\ info.utid = "utid-r" -> "uid-r.utid-r"
      [] OTHER -> ""

\* AccountEntity.generateHomeAccountId: the identity computed from client-info,
\* the authority's type and the ID-token claims ("" when there is none)
generateHomeAccountId(clientInfo, authorityType, idAuthToken) ==
    IF authorityType \in {"Adfs", "Dsts"} THEN idAuthToken.sub
    ELSE LET info == buildClientInfo(clientInfo)
         IN  IF info.uid # "" /\ info.utid # "" THEN JoinClientInfo(info)
             ELSE idAuthToken.sub

\* new Authority(Authority.generateAuthority(url, ...), ...): the resolved
\* authority of an authority string
Authority(url) ==
    CASE url = "https://login.example.com/common" ->
            [hostnameAndPort |-> "login.example.com", tenant |-> "common",
             authorityType |-> "Default"]
      [] url = "https://adfs.example.com/adfs" ->
            [hostnameAndPort |-> "adfs.example.com", tenant |-> "adfs",
             authorityType |-> "Adfs"]
      [] OTHER ->
            [hostnameAndPort |-> "", tenant |-> "", authorityType |-> "Default"]

\* AccountEntity.createAccount: the full account (claims and client-info)
createAccount(clientInfo, homeAccountId, idAuthToken, environment) ==
    [homeAccountId |-> homeAccountId, environment |-> environment,
     realm |-> idAuthToken.tid, localAccountId |-> idAuthToken.sub,
     clientInfo |-> Some(clientInfo)]

\* AccountEntity.createGenericAccount: the generic account (claims only)
createGenericAccount(homeAccountId, idAuthToken, environment) ==
    [homeAccountId |-> homeAccountId, environment |-> environment,
     realm |-> idAuthToken.tid, localAccountId |-> idAuthToken.sub,
     clientInfo |-> None]

\* IdTokenEntity.createIdTokenEntity
createIdTokenEntity(homeAccountId, environment, idToken, client, tenantId) ==
    [credentialType |-> "IdToken", homeAccountId |-> homeAccountId,
     environment |-> environment, clientId |-> client, realm |-> tenantId,
     secret |-> idToken]

\* AccessTokenEntity.createAccessTokenEntity
createAccessTokenEntity(homeAccountId, environment, accessToken, client, tenantId, scopes, expiresOn, extExpiresOn) ==
    [credentialType |-> "AccessToken", homeAccountId |-> homeAccountId,
     environment |-> environment, clientId |-> client, realm |-> tenantId,
     target |-> scopes, secret |-> accessToken,
     expiresOn |-> expiresOn, extendedExpiresOn |-> extExpiresOn]

\* RefreshTokenEntity.createRefreshTokenEntity
createRefreshTokenEntity(homeAccountId, environment, refreshToken, client) ==
    [credentialType |-> "RefreshToken", homeAccountId |-> homeAccountId,
     environment |-> environment, clientId |-> client, secret |-> refreshToken]

\* the cache key of an account: its lower-cased key fields, joined
generateAccountKey(e) ==
    <<Lower(e.homeAccountId), Lower(e.environment), Lower(e.realm)>>

\* the cache key of a credential: its lower-cased key fields, joined
generateCredentialKey(e) ==
    <<Lower(e.homeAccountId), Lower(e.environment), Lower(e.credentialType),
      Lower(e.clientId)>>
    \o (IF e.credentialType = "RefreshToken" THEN <<>> ELSE <<Lower(e.realm)>>)
    \o (IF e.credentialType = "AccessToken"
        THEN <<[i \in DOMAIN e.target |-> Lower(e.target[i])]>> ELSE <<>>)

\* the storage after construction: no entity of any type
EmptyStorage ==
    [accounts |-> {}, idTokens |-> {}, accessTokens |-> {}, refreshTokens |-> {}]

\* storage.setAccount: the entity replaces the one stored under its key
setAccount(st, e) ==
    [st EXCEPT !.accounts =
        {x \in @ : generateAccountKey(x) # generateAccountKey(e)} \cup {e}]

\* storage.setIdTokenCredential
setIdTokenCredential(st, e) ==
    [st EXCEPT !.idTokens =
        {x \in @ : generateCredentialKey(x) # generateCredentialKey(e)} \cup {e}]

\* storage.setAccessTokenCredential
setAccessTokenCredential(st, e) ==
    [st EXCEPT !.accessTokens =
        {x \in @ : generateCredentialKey(x) # generateCredentialKey(e)} \cup {e}]

\* storage.setRefreshTokenCredential
setRefreshTokenCredential(st, e) ==
    [st EXCEPT !.refreshTokens =
        {x \in @ : generateCredentialKey(x) # generateCredentialKey(e)} \cup {e}]

\* the keys under which the storage holds an entity
StorageKeys(st) ==
    [accounts |-> {generateAccountKey(e) : e \in st.accounts},
     idTokens |-> {generateCredentialKey(e) : e \in st.idTokens},
     accessTokens |-> {generateCredentialKey(e) : e \in st.accessTokens},
     refreshTokens |-> {generateCredentialKey(e) : e \in st.refreshTokens}]

----------------------------------------------------------------------------
(* TokenCache: the helpers.  A helper takes the storage and the writes made  *)
(* so far in the call (s) and yields them as it leaves them, with the error  *)
(* it threw (None when it returned) and the value it returned.               *)

\* a helper returned v
Return(s, v) ==
    [storage |-> s.storage, writes |-> s.writes, error |-> None, value |-> v]

\* a helper threw the error e
Throw(s, e) ==
    [storage |-> s.storage, writes |-> s.writes, error |-> Some(e), value |-> None]

\* what a later helper starts from
After(r) == [storage |-> r.storage, writes |-> r.writes]

\* the call this.storage.<setter>(entity), which throws when the storage fails
Write(s, setter, entity, fault) ==
    IF fault = setter THEN Throw(s, StorageFailure)
    ELSE [storage |->
            CASE setter = "setAccount" -> setAccount(s.storage, entity)
              [] setter = "setIdTokenCredential" -> setIdTokenCredential(s.storage, entity)
              [] setter = "setAccessTokenCredential" -> setAccessTokenCredential(s.storage, entity)
              [] setter = "setRefreshTokenCredential" -> setRefreshTokenCredential(s.storage, entity),
          writes |-> Append(s.writes, [setter |-> setter, entity |-> entity]),
          error |-> None,
          value |-> Some(entity)]

\* C6 mutant: the account is stored without looking at the environment flag
loadAccountAnywhere(s, idToken, environment, clientInfo, authorityType, requestHomeAccountId, fault) ==
    LET idAuthToken == AuthToken(idToken)
        homeAccountId ==
            IF TruthyStr(requestHomeAccountId) THEN requestHomeAccountId
            ELSE IF authorityType # None /\ TruthyStr(clientInfo)
                 THEN Some(generateHomeAccountId(clientInfo[1], authorityType[1], idAuthToken))
                 ELSE None
    IN  IF ~TruthyStr(homeAccountId) THEN Throw(s, UnresolvedIdentity)
        ELSE Write(s, "setAccount",
                   IF TruthyStr(clientInfo)
                   THEN createAccount(clientInfo[1], homeAccountId[1], idAuthToken, environment)
                   ELSE createGenericAccount(homeAccountId[1], idAuthToken, environment),
                   fault)

\* C25 mutant: the identity is only tested for being defined, so an empty
\* identity passes
loadAccountDefinedIdentity(s, idToken, environment, clientInfo, authorityType, requestHomeAccountId, fault) ==
    LET idAuthToken == AuthToken(idToken)
        homeAccountId ==
            IF TruthyStr(requestHomeAccountId) THEN requestHomeAccountId
            ELSE IF authorityType # None /\ TruthyStr(clientInfo)
                 THEN Some(generateHomeAccountId(clientInfo[1], authorityType[1], idAuthToken))
                 ELSE None
    IN  IF homeAccountId = None THEN Throw(s, UnresolvedIdentity)
        ELSE IF isBrowserEnvironment
        THEN Write(s, "setAccount",
                   IF TruthyStr(clientInfo)
                   THEN createAccount(clientInfo[1], homeAccountId[1], idAuthToken, environment)
                   ELSE createGenericAccount(homeAccountId[1], idAuthToken, environment),
                   fault)
        ELSE Throw(s, UnsupportedEnvironment)

\* C19 mutant: the environment is looked at before the identity
loadAccountEnvironmentFirst(s, idToken, environment, clientInfo, authorityType, requestHomeAccountId, fault) ==
    IF ~isBrowserEnvironment THEN Throw(s, UnsupportedEnvironment)
    ELSE loadAccountAnywhere(s, idToken, environment, clientInfo, authorityType,
                             requestHomeAccountId, fault)

\* TokenCache.loadAccount
loadAccount(s, idToken, environment, clientInfo, authorityType, requestHomeAccountId, fault) ==
    LET idAuthToken == AuthToken(idToken)
        homeAccountId ==
            IF TruthyStr(requestHomeAccountId) THEN requestHomeAccountId
            ELSE IF authorityType # None /\ TruthyStr(clientInfo)
                 THEN Some(generateHomeAccountId(clientInfo[1], authorityType[1], idAuthToken))
                 ELSE None
    IN  IF ~TruthyStr(homeAccountId) THEN Throw(s, UnresolvedIdentity)
        ELSE LET accountEntity ==
                    IF TruthyStr(clientInfo)
                    THEN createAccount(clientInfo[1], homeAccountId[1], idAuthToken, environment)
                    ELSE createGenericAccount(homeAccountId[1], idAuthToken, environment)
             IN  IF isBrowserEnvironment
                 THEN Write(s, "setAccount", accountEntity, fault)
                 ELSE Throw(s, UnsupportedEnvironment)

\* C8 mutant: an ID token already cached under the key is left alone and
\* nothing is returned for it
loadIdTokenOnce(s, idToken, homeAccountId, environment, tenantId, fault) ==
    LET idTokenEntity ==
            createIdTokenEntity(homeAccountId, environment, idToken, clientId, tenantId)
    IN  IF \E x \in s.storage.idTokens :
                generateCredentialKey(x) = generateCredentialKey(idTokenEntity)
        THEN Return(s, None)
        ELSE IF isBrowserEnvironment
        THEN Write(s, "setIdTokenCredential", idTokenEntity, fault)
        ELSE Throw(s, UnsupportedEnvironment)

\* C24 mutant: a failed write of the ID token is caught and the entity returned
loadIdTokenCatching(s, idToken, homeAccountId, environment, tenantId, fault) ==
    LET idTokenEntity ==
            createIdTokenEntity(homeAccountId, environment, idToken, clientId, tenantId)
    IN  IF isBrowserEnvironment
        THEN IF fault = "setIdTokenCredential" THEN Return(s, Some(idTokenEntity))
             ELSE Write(s, "setIdTokenCredential", idTokenEntity, fault)
        ELSE Throw(s, UnsupportedEnvironment)

\* TokenCache.loadIdToken
loadIdToken(s, idToken, homeAccountId, environment, tenantId, fault) ==
    LET idTokenEntity ==
            createIdTokenEntity(homeAccountId, environment, idToken, clientId, tenantId)
    IN  IF isBrowserEnvironment
        THEN Write(s, "setIdTokenCredential", idTokenEntity, fault)
        ELSE Throw(s, UnsupportedEnvironment)

\* C4 mutant: an explicit options.expiresOn stands in for response.expires_in
checkExpiryUnlessExpiresOn(response, options) ==
    IF ~TruthyNum(response.expires_in) /\ ~TruthyNum(options.expiresOn)
    THEN Some(MissingExpiresIn)
    ELSE IF ~TruthyNum(options.extendedExpiresOn) THEN Some(MissingExtendedExpiresOn)
    ELSE None

\* C9 mutant: options.extendedExpiresOn is not checked
checkExpiresInOnly(response, options) ==
    IF ~TruthyNum(response.expires_in) THEN Some(MissingExpiresIn) ELSE None

\* the expiry checks of loadAccessToken: the error thrown, None when both pass
checkExpiry(response, options) ==
    IF ~TruthyNum(response.expires_in) THEN Some(MissingExpiresIn)
    ELSE IF ~TruthyNum(options.extendedExpiresOn) THEN Some(MissingExtendedExpiresOn)
    ELSE None

\* C10 mutant: the scope array is cached as the request has it
requestScopesAsGiven(request) == request.scopes

\* the scopes of the request in their printed form
requestScopes(request) == printScopes(request.scopes)

\* C5 mutant: the expiry checks come before the test for an access token
loadAccessTokenChecksFirst(s, request, response, homeAccountId, environment, tenantId, options, fault, t) ==
    IF checkExpiry(response, options) # None
    THEN Throw(s, checkExpiry(response, options)[1])
    ELSE IF ~TruthyStr(response.access_token) THEN Return(s, None)
    ELSE LET expiresOn == IF TruthyNum(options.expiresOn) THEN options.expiresOn
                          ELSE Some(response.expires_in[1] + t)
             accessTokenEntity ==
                createAccessTokenEntity(homeAccountId, environment, response.access_token[1],
                                        clientId, tenantId, requestScopes(request),
                                        expiresOn, options.extendedExpiresOn)
         IN  IF isBrowserEnvironment
             THEN Write(s, "setAccessTokenCredential", accessTokenEntity, fault)
             ELSE Throw(s, UnsupportedEnvironment)

\* TokenCache.loadAccessToken, t being the clock reading new Date().getTime() / 1000
loadAccessToken(s, request, response, homeAccountId, environment, tenantId, options, fault, t) ==
    IF ~TruthyStr(response.access_token) THEN Return(s, None)
    ELSE IF checkExpiry(response, options) # None
    THEN Throw(s, checkExpiry(response, options)[1])
    ELSE LET scopes == requestScopes(request)
             expiresOn == IF TruthyNum(options.expiresOn) THEN options.expiresOn
                          ELSE Some(response.expires_in[1] + t)
             extendedExpiresOn == options.extendedExpiresOn
             accessTokenEntity ==
                createAccessTokenEntity(homeAccountId, environment, response.access_token[1],
                                        clientId, tenantId, scopes, expiresOn, extendedExpiresOn)
         IN  IF isBrowserEnvironment
             THEN Write(s, "setAccessTokenCredential", accessTokenEntity, fault)
             ELSE Throw(s, UnsupportedEnvironment)

\* C21 mutant: the refresh token takes its environment from the request's
\* authority when the request has one
loadRefreshTokenForAuthority(s, request, response, homeAccountId, environment, fault) ==
    IF ~TruthyStr(response.refresh_token) THEN Return(s, None)
    ELSE LET refreshTokenEntity ==
                createRefreshTokenEntity(homeAccountId,
                                         IF TruthyStr(request.authority)
                                         THEN Authority(request.authority[1]).hostnameAndPort
                                         ELSE environment,
                                         response.refresh_token[1], clientId)
         IN  IF isBrowserEnvironment
             THEN Write(s, "setRefreshTokenCredential", refreshTokenEntity, fault)
             ELSE Throw(s, UnsupportedEnvironment)

\* TokenCache.loadRefreshToken
loadRefreshToken(s, request, response, homeAccountId, environment, fault) ==
    IF ~TruthyStr(response.refresh_token) THEN Return(s, None)
    ELSE LET refreshTokenEntity ==
                createRefreshTokenEntity(homeAccountId, environment,
                                         response.refresh_token[1], clientId)
         IN  IF isBrowserEnvironment
             THEN Write(s, "setRefreshTokenCredential", refreshTokenEntity, fault)
             ELSE Throw(s, UnsupportedEnvironment)

\* C7 mutant: the record is built without the refresh token
CacheRecordOfThree(account, idToken, accessToken, refreshToken) ==
    [account |-> account, idToken |-> idToken,
     accessToken |-> accessToken, refreshToken |-> None]

\* new CacheRecord(account, idToken, accessToken, refreshToken)
CacheRecord(account, idToken, accessToken, refreshToken) ==
    [account |-> account, idToken |-> idToken,
     accessToken |-> accessToken, refreshToken |-> refreshToken]

\* C20 mutant: the access token is loaded before the ID token
loadCredentialsAccessTokenFirst(a, request, response, environment, tenantId, options, fault, t) ==
    IF a.error # None THEN a
    ELSE LET homeAccountId == a.value[1].homeAccountId
             at == loadAccessToken(After(a), request, response, homeAccountId,
                                   environment, tenantId, options, fault, t)
         IN  IF at.error # None THEN at
             ELSE LET i == loadIdToken(After(at), response.id_token[1], homeAccountId,
                                       environment, tenantId, fault)
                  IN  IF i.error # None THEN i
                      ELSE LET rt == loadRefreshToken(After(i), request, response,
                                                      homeAccountId, environment, fault)
                           IN  IF rt.error # None THEN rt
                               ELSE Return(After(rt),
                                           Some(CacheRecord(a.value, i.value,
                                                            at.value, rt.value)))

\* return new CacheRecord(cacheRecordAccount, this.loadIdToken(...),
\* this.loadAccessToken(...), this.loadRefreshToken(...)): the arguments are
\* evaluated from left to right and the first throw ends the call
loadCredentials(a, request, response, environment, tenantId, options, fault, t) ==
    IF a.error # None THEN a
    ELSE LET homeAccountId == a.value[1].homeAccountId
             i == loadIdToken(After(a), response.id_token[1], homeAccountId,
                              environment, tenantId, fault)
         IN  IF i.error # None THEN i
             ELSE LET at == loadAccessToken(After(i), request, response, homeAccountId,
                                            environment, tenantId, options, fault, t)
                  IN  IF at.error # None THEN at
                      ELSE LET rt == loadRefreshToken(After(at), request, response,
                                                      homeAccountId, environment, fault)
                           IN  IF rt.error # None THEN rt
                               ELSE Return(After(rt),
                                           Some(CacheRecord(a.value, i.value,
                                                            at.value, rt.value)))

\* C3 mutant: response.client_info is looked at first
chosenClientInfoResponseFirst(response, options) ==
    IF TruthyStr(response.client_info) THEN response.client_info
    ELSE IF TruthyStr(options.clientInfo) THEN options.clientInfo
    ELSE None

\* the client-info of the authority path: options.clientInfo takes precedence
\* over response.client_info
chosenClientInfo(response, options) ==
    IF TruthyStr(options.clientInfo) THEN options.clientInfo
    ELSE IF TruthyStr(response.client_info) THEN response.client_info
    ELSE None

\* C1 mutant: the guard tests only that the field is there (id_token !== undefined)
hasIdTokenField(response) == response.id_token # None

\* the guard on response.id_token
hasIdToken(response) == TruthyStr(response.id_token)

\* C2 mutant: a request without an authority falls back to a default authority
requestAuthorityOrDefault(request) ==
    IF TruthyStr(request.authority) THEN request.authority
    ELSE Some("https://login.example.com/common")

\* the authority string the request is read for
requestAuthority(request) == request.authority

\* C23 mutant: a request with an authority is resolved at the authority, even
\* when it carries an account
loadExternalTokensAuthorityFirst(st, request, response, options, fault, t) ==
    LET s == [storage |-> st, writes |-> <<>>]
    IN  IF ~hasIdToken(response) THEN Throw(s, MissingIdToken)
        ELSE IF TruthyStr(requestAuthority(request))
        THEN LET authority == Authority(requestAuthority(request)[1])
                 clientInfo == chosenClientInfo(response, options)
             IN  IF clientInfo # None
                 THEN LET cacheRecordAccount ==
                            loadAccount(s, response.id_token[1], authority.hostnameAndPort,
                                        clientInfo, Some(authority.authorityType), None, fault)
                      IN  loadCredentials(cacheRecordAccount, request, response,
                                          authority.hostnameAndPort, authority.tenant,
                                          options, fault, t)
                 ELSE Throw(s, MissingClientInfo)
        ELSE IF request.account # None
        THEN LET account == request.account[1]
                 cacheRecordAccount ==
                    loadAccount(s, response.id_token[1], account.environment, None, None,
                                Some(account.homeAccountId), fault)
             IN  loadCredentials(cacheRecordAccount, request, response,
                                 account.environment, account.tenantId, options, fault, t)
        ELSE Throw(s, MissingAccountOrAuthority)

\* TokenCache.loadExternalTokens, called on the storage st
loadExternalTokens(st, request, response, options, fault, t) ==
    LET s == [storage |-> st, writes |-> <<>>]
    IN  IF ~hasIdToken(response) THEN Throw(s, MissingIdToken)
        ELSE IF request.account # None
        THEN LET account == request.account[1]
                 cacheRecordAccount ==
                    loadAccount(s, response.id_token[1], account.environment, None, None,
                                Some(account.homeAccountId), fault)
             IN  loadCredentials(cacheRecordAccount, request, response,
                                 account.environment, account.tenantId, options, fault, t)
        ELSE IF TruthyStr(requestAuthority(request))
        THEN LET authority == Authority(requestAuthority(request)[1])
                 clientInfo == chosenClientInfo(response, options)
             IN  IF clientInfo # None
                 THEN LET cacheRecordAccount ==
                            loadAccount(s, response.id_token[1], authority.hostnameAndPort,
                                        clientInfo, Some(authority.authorityType), None, fault)
                      IN  loadCredentials(cacheRecordAccount, request, response,
                                          authority.hostnameAndPort, authority.tenant,
                                          options, fault, t)
                 ELSE Throw(s, MissingClientInfo)
        ELSE Throw(s, MissingAccountOrAuthority)

----------------------------------------------------------------------------
(* The inputs of a call *)

\* an account of the application, as an earlier sign-in returned it
SignedInAccount ==
    [homeAccountId |-> "uid-a.utid-a", environment |-> "login.windows.net",
     tenantId |-> "utid-a"]

\* an AccountInfo whose homeAccountId is the empty string
AccountWithoutId == [SignedInAccount EXCEPT !.homeAccountId = ""]

\* the scope arrays of a request: one to MaxScopes scope names
ScopeLists == UNION {[1..n -> ScopeNames] : n \in 1..MaxScopes}

\* SilentRequest: account?, authority?, scopes
Requests ==
    [account : {None, Some(SignedInAccount), Some(AccountWithoutId)},
     authority : {None, Some("https://login.example.com/common")},
     scopes : ScopeLists]

\* ExternalTokenResponse: id_token?, client_info?, access_token?, expires_in?, refresh_token?
Responses ==
    [id_token : {None, Some(""), Some("id-token-1")},
     client_info : {None, Some("client-info-response")},
     access_token : {None, Some("AT1")},
     expires_in : {None, Some(3600)},
     refresh_token : {None, Some("RT1")}]

\* LoadTokenOptions: clientInfo?, expiresOn?, extendedExpiresOn?
LoadTokenOptions ==
    [clientInfo : {None, Some("client-info-options")},
     expiresOn : {None, Some(0), Some(5000)},
     extendedExpiresOn : {None, Some(7200)}]

\* the storage setter that fails during a call, if any
NoFault == "none"

----------------------------------------------------------------------------
(* The state machine *)

\* no call made yet
NoCall == [called |-> FALSE]

\* clearCacheOnLogout not called yet
NoLogout == [pc |-> "idle"]

\* no interaction client constructed yet
NoClient == [constructed |-> FALSE]

\* initializeBaseRequest not called yet, and no request issued
NoBaseRequest == [called |-> FALSE, issued |-> {}]

\* acquireToken not called yet
NoAcquireToken == [called |-> FALSE]

\* the tasks that call loadExternalTokens concurrently
Ingestions == {"first", "second"}

\* a task that has not called loadExternalTokens yet
NewTask == [pc |-> "new"]

\* new TokenCache(configuration, storage, logger, cryptoObj): the environment flag
\* is read once, from whether a window object exists
Init ==
    /\ isBrowserEnvironment \in BOOLEAN
    /\ storage = EmptyStorage
    /\ now = 1
    /\ calls = 0
    /\ last = NoCall
    /\ prev = NoCall
    /\ activeAccount = None
    /\ keystore = {"signing-key"}
    /\ logout = NoLogout
    /\ interactionClient = NoClient
    /\ baseRequest = NoBaseRequest
    /\ silent = NoAcquireToken
    /\ tasks = [i \in Ingestions |-> NewTask]
    /\ running = None
    /\ oplog = <<>>

\* one call loadExternalTokens(request, response, options) at a clock reading t
Call(request, response, options, fault, t) ==
    LET r == loadExternalTokens(storage, request, response, options, fault, t)
    IN  /\ storage' = r.storage
        /\ now' = t
        /\ calls' = calls + 1
        /\ prev' = last
        /\ last' = [called |-> TRUE, request |-> request, response |-> response,
                    options |-> options, fault |-> fault, time |-> t,
                    before |-> storage, error |-> r.error, record |-> r.value,
                    writes |-> r.writes]
        /\ UNCHANGED <<isBrowserEnvironment, clientVars>>

\* the application calls loadExternalTokens on the new cache
LoadExternalTokens ==
    /\ calls = 0
    /\ \E request \in Requests, response \in Responses, options \in LoadTokenOptions,
          t \in now..MaxTime :
            Call(request, response, options, NoFault, t)

Next == LoadExternalTokens

Spec == Init /\ [][Next]_vars

\* requests, responses and options that supply everything ingestion asks for
CompleteRequests ==
    {q \in Requests : q.authority # None /\ q.account # Some(AccountWithoutId)}

CompleteResponses ==
    {r \in Responses : TruthyStr(r.id_token) /\ r.client_info # None /\ r.expires_in # None}

CompleteOptions == {o \in LoadTokenOptions : o.extendedExpiresOn # None}

\* the application loads a complete set of tokens into the new cache
LoadCompleteTokens ==
    /\ calls = 0
    /\ \E request \in CompleteRequests, response \in CompleteResponses,
          options \in CompleteOptions, t \in now..MaxTime :
            Call(request, response, options, NoFault, t)

\* the application issues its call once more, later or at once, with the same
\* response and options and a request that differs at most in its scope array
Reissue ==
    /\ calls = 1
    /\ \E scopes \in ScopeLists, t \in now..MaxTime :
            Call([last.request EXCEPT !.scopes = scopes], last.response, last.options,
                 last.fault, t)

NextRepeat == LoadCompleteTokens \/ Reissue

SpecRepeat == Init /\ [][NextRepeat]_vars

\* the storage setters, any of which may fail a write
StorageSetters ==
    {"setAccount", "setIdTokenCredential", "setAccessTokenCredential",
     "setRefreshTokenCredential"}

\* the application loads a complete set of tokens and one setter fails, or none
LoadIntoFailingStorage ==
    /\ calls = 0
    /\ \E request \in CompleteRequests, response \in CompleteResponses,
          options \in CompleteOptions, fault \in StorageSetters \cup {NoFault},
          t \in now..MaxTime :
            Call(request, response, options, fault, t)

NextFailing == LoadIntoFailingStorage

SpecFailing == Init /\ [][NextFailing]_vars

----------------------------------------------------------------------------
(* What the claims speak of *)

\* the last call left the storage as it found it
NotWritten == storage = last.before /\ last.writes = <<>>

\* the positions of the last call's writes made through a setter
WritesOf(setter) == {i \in DOMAIN last.writes : last.writes[i].setter = setter}

\* the last call threw the error e
Failed(e) == last.error = Some(e)

\* the last call returned a cache record
Succeeded == last.error = None

\* the last call took the authority path: an authority and no account
AuthorityPath ==
    /\ TruthyStr(last.response.id_token)
    /\ last.request.account = None
    /\ TruthyStr(last.request.authority)

----------------------------------------------------------------------------
(* C1 *)

\* C1: a call whose response carries no ID-token string (absent or empty) fails
\* with MissingIdToken whatever the other fields are, and writes nothing.
C1_MissingIdToken ==
    (last.called /\ (last.response.id_token = None \/ last.response.id_token = Some("")))
        => (Failed(MissingIdToken) /\ NotWritten)

\* C1 witness: an empty ID token in a browser, with an account, an authority,
\* client-info and an access token with its expiry all supplied
C1_Witness ==
    /\ last.called
    /\ isBrowserEnvironment
    /\ last.response.id_token = Some("")
    /\ last.request.account = Some(SignedInAccount)
    /\ last.request.authority # None
    /\ last.response.client_info # None
    /\ last.response.access_token # None
    /\ last.response.expires_in # None
    /\ last.options.extendedExpiresOn # None
    /\ Failed(MissingIdToken)
    /\ NotWritten

----------------------------------------------------------------------------
(* C2 *)

\* C2: a call whose response carries an ID token and whose request has neither
\* an account nor an authority string fails with MissingAccountOrAuthority and
\* writes nothing.
C2_MissingAccountOrAuthority ==
    (/\ last.called
     /\ TruthyStr(last.response.id_token)
     /\ last.request.account = None
     /\ ~TruthyStr(last.request.authority))
        => (Failed(MissingAccountOrAuthority) /\ NotWritten)

\* C2 witness: such a call in a browser, with client-info and tokens supplied
C2_Witness ==
    /\ last.called
    /\ isBrowserEnvironment
    /\ TruthyStr(last.response.id_token)
    /\ last.request.account = None
    /\ last.request.authority = None
    /\ last.options.clientInfo # None
    /\ last.response.refresh_token # None
    /\ Failed(MissingAccountOrAuthority)
    /\ NotWritten

----------------------------------------------------------------------------
(* C3 *)

\* the account entity the last call handed to setAccount, in a sequence
AccountWritten ==
    [i \in 1..Cardinality(WritesOf("setAccount")) |->
        last.writes[CHOOSE j \in WritesOf("setAccount") : TRUE].entity]

\* C3: on the authority path the account is built and its identity derived from
\* options.clientInfo whenever that is present, from response.client_info when
\* only that is present, and with neither the call fails with MissingClientInfo
\* before any write.
C3_ClientInfoPrecedence ==
    (last.called /\ AuthorityPath) =>
        LET fromOptions == last.options.clientInfo
            fromResponse == last.response.client_info
            used == IF fromOptions # None THEN fromOptions ELSE fromResponse
        IN  IF used = None
            THEN Failed(MissingClientInfo) /\ NotWritten
            ELSE /\ ~Failed(MissingClientInfo)
                 /\ isBrowserEnvironment =>
                        /\ Len(AccountWritten) = 1
                        /\ AccountWritten[1].clientInfo = used
                        /\ AccountWritten[1].homeAccountId =
                              JoinClientInfo(buildClientInfo(used[1]))

\* C3 witness: both client-infos present, and the account stored is the one
\* built from options.clientInfo
C3_Witness ==
    /\ last.called
    /\ AuthorityPath
    /\ last.options.clientInfo = Some("client-info-options")
    /\ last.response.client_info = Some("client-info-response")
    /\ Len(AccountWritten) = 1
    /\ AccountWritten[1].homeAccountId = "uid-o.utid-o"
    /\ AccountWritten[1] \in storage.accounts

----------------------------------------------------------------------------
(* C4 *)

\* the last call reached loadAccessToken: loadIdToken had returned
ReachedAccessToken == WritesOf("setIdTokenCredential") # {}

\* the last call wrote no access-token entity
NoAccessTokenWritten ==
    /\ WritesOf("setAccessTokenCredential") = {}
    /\ storage.accessTokens = last.before.accessTokens

\* C4: once ingestion reaches the access-token step with an access-token string
\* in the response, it fails with MissingExpiry when response.expires_in is
\* missing, and also when expires_in is there but options.extendedExpiresOn is
\* missing; options.expiresOn waives neither, and no access token is written.
C4_MissingExpiry ==
    (/\ last.called
     /\ ReachedAccessToken
     /\ TruthyStr(last.response.access_token)
     /\ (last.response.expires_in = None \/ last.options.extendedExpiresOn = None))
        => /\ last.error # None
           /\ last.error[1] \in MissingExpiry
           /\ last.response.expires_in = None => Failed(MissingExpiresIn)
           /\ last.response.expires_in # None => Failed(MissingExtendedExpiresOn)
           /\ NoAccessTokenWritten

\* C4 witness: an access token without expires_in, options.expiresOn supplied
C4_Witness ==
    /\ last.called
    /\ ReachedAccessToken
    /\ TruthyStr(last.response.access_token)
    /\ last.response.expires_in = None
    /\ last.options.expiresOn = Some(5000)
    /\ last.options.extendedExpiresOn # None
    /\ Failed(MissingExpiresIn)
    /\ NoAccessTokenWritten

----------------------------------------------------------------------------
(* C5 *)

\* the inputs of the last call pass every check made outside the optional
\* tokens, in a browser whose storage takes the writes
OtherwiseValid ==
    /\ last.called
    /\ isBrowserEnvironment
    /\ last.fault = NoFault
    /\ TruthyStr(last.response.id_token)
    /\ \/ /\ last.request.account # None
          /\ last.request.account[1].homeAccountId # ""
       \/ /\ AuthorityPath
          /\ (last.options.clientInfo # None \/ last.response.client_info # None)
    /\ TruthyStr(last.response.access_token) =>
            (TruthyNum(last.response.expires_in) /\ TruthyNum(last.options.extendedExpiresOn))

\* the account and the ID token of the returned record are in the storage
AccountAndIdTokenStored ==
    /\ last.record # None
    /\ last.record[1].account # None
    /\ last.record[1].account[1] \in storage.accounts
    /\ last.record[1].idToken # None
    /\ last.record[1].idToken[1] \in storage.idTokens
    /\ last.record[1].idToken[1].secret = last.response.id_token[1]

\* C5: for an otherwise valid call, a response without an access-token string
\* gives a record whose accessToken is null and a response without a
\* refresh-token string one whose refreshToken is null; there is no error (the
\* expiry fields are not looked at without an access token), nothing of the
\* absent type is written, and the account and the ID token are stored and
\* returned.
C5_AbsentTokensAreNull ==
    /\ (OtherwiseValid /\ ~TruthyStr(last.response.access_token)) =>
            /\ Succeeded
            /\ last.record[1].accessToken = None
            /\ NoAccessTokenWritten
            /\ AccountAndIdTokenStored
    /\ (OtherwiseValid /\ ~TruthyStr(last.response.refresh_token)) =>
            /\ Succeeded
            /\ last.record[1].refreshToken = None
            /\ WritesOf("setRefreshTokenCredential") = {}
            /\ storage.refreshTokens = last.before.refreshTokens
            /\ AccountAndIdTokenStored

\* C5 witness: neither token in the response, and no expiry field either
C5_Witness ==
    /\ OtherwiseValid
    /\ last.response.access_token = None
    /\ last.response.refresh_token = None
    /\ last.response.expires_in = None
    /\ last.options.extendedExpiresOn = None
    /\ Succeeded
    /\ last.record[1].accessToken = None
    /\ last.record[1].refreshToken = None
    /\ AccountAndIdTokenStored

----------------------------------------------------------------------------
(* C6 *)

\* the last call passes the ID-token, account-or-authority and client-info checks
PassesInputChecks ==
    /\ last.called
    /\ TruthyStr(last.response.id_token)
    /\ \/ last.request.account # None
       \/ /\ AuthorityPath
          /\ (last.options.clientInfo # None \/ last.response.client_info # None)

\* the last call has a home-account identity to work with: the one of the
\* request's account, or the one derived on the authority path
IdentityEstablished ==
    IF last.request.account # None
    THEN last.request.account[1].homeAccountId # ""
    ELSE LET used == IF last.options.clientInfo # None THEN last.options.clientInfo
                     ELSE last.response.client_info
         IN  generateHomeAccountId(used[1],
                                   Authority(last.request.authority[1]).authorityType,
                                   AuthToken(last.response.id_token[1])) # ""

\* ingestion has written nothing
NothingStored == storage = EmptyStorage /\ (last.called => last.writes = <<>>)

\* C6 as claimed: outside a browser every call that passes the ID-token,
\* account-or-authority and client-info checks fails with UnsupportedEnvironment,
\* and nothing is ever written.
C6_AsClaimed ==
    ~isBrowserEnvironment =>
        /\ PassesInputChecks => Failed(UnsupportedEnvironment)
        /\ NothingStored

\* C6 amended: outside a browser every call that passes the ID-token,
\* account-or-authority and client-info checks and has a home-account identity
\* (a non-empty homeAccountId on the request's account, or a derived one) fails
\* with UnsupportedEnvironment, and nothing is ever written.
C6_UnsupportedEnvironment ==
    ~isBrowserEnvironment =>
        /\ (PassesInputChecks /\ IdentityEstablished) => Failed(UnsupportedEnvironment)
        /\ NothingStored

\* C6 witness: outside a browser a call with an account and all tokens fails
\* with UnsupportedEnvironment and leaves the storage empty
C6_Witness ==
    /\ ~isBrowserEnvironment
    /\ PassesInputChecks
    /\ last.request.account = Some(SignedInAccount)
    /\ TruthyStr(last.response.access_token)
    /\ TruthyStr(last.response.refresh_token)
    /\ Failed(UnsupportedEnvironment)
    /\ NothingStored

----------------------------------------------------------------------------
(* C7 *)

\* a field of the returned record against the writes made through a setter: at
\* most one write, none exactly when the field is null, and the entity written
\* is the one returned
Reflects(field, setter) ==
    /\ Cardinality(WritesOf(setter)) <= 1
    /\ (field = None) <=> (WritesOf(setter) = {})
    /\ \A i \in WritesOf(setter) : last.writes[i].entity = field[1]

\* C7: after a successful call the returned record reflects exactly what the
\* call persisted: each non-null field is the entity handed to its setter, each
\* null field had no write, and no setter was called twice.
C7_RecordReflectsWrites ==
    (last.called /\ Succeeded) =>
        /\ last.record # None
        /\ Reflects(last.record[1].account, "setAccount")
        /\ Reflects(last.record[1].idToken, "setIdTokenCredential")
        /\ Reflects(last.record[1].accessToken, "setAccessTokenCredential")
        /\ Reflects(last.record[1].refreshToken, "setRefreshTokenCredential")
        /\ Len(last.writes) <= 4

\* C7 witness: a successful call that stored a refresh token and no access token
C7_Witness ==
    /\ last.called
    /\ Succeeded
    /\ last.record[1].accessToken = None
    /\ last.record[1].refreshToken # None
    /\ last.record[1].refreshToken[1] \in storage.refreshTokens
    /\ Len(last.writes) = 3

----------------------------------------------------------------------------
(* C9 *)

\* C9: every access-token entity in the storage carries an expiry and an
\* extended expiry, both present and non-zero.
C9_AccessTokensHaveExpiries ==
    \A e \in storage.accessTokens :
        /\ e.expiresOn # None /\ e.expiresOn[1] # 0
        /\ e.extendedExpiresOn # None /\ e.extendedExpiresOn[1] # 0

\* C9 witness: an access token stored by a call whose options.expiresOn was 0,
\* with the expiry computed from the clock
C9_Witness ==
    /\ last.called
    /\ last.options.expiresOn = Some(0)
    /\ \E e \in storage.accessTokens :
            e.expiresOn = Some(last.response.expires_in[1] + last.time)

----------------------------------------------------------------------------
(* C8 *)

\* the cache keys of the entities of a returned record
RecordKeys(record) ==
    [account |-> IF record.account = None THEN None
                 ELSE Some(generateAccountKey(record.account[1])),
     idToken |-> IF record.idToken = None THEN None
                 ELSE Some(generateCredentialKey(record.idToken[1])),
     accessToken |-> IF record.accessToken = None THEN None
                     ELSE Some(generateCredentialKey(record.accessToken[1])),
     refreshToken |-> IF record.refreshToken = None THEN None
                      ELSE Some(generateCredentialKey(record.refreshToken[1]))]

\* how many entities of each type the storage holds
StorageSizes(st) ==
    [accounts |-> Cardinality(st.accounts), idTokens |-> Cardinality(st.idTokens),
     accessTokens |-> Cardinality(st.accessTokens),
     refreshTokens |-> Cardinality(st.refreshTokens)]

\* the last two calls had the same response and options, and requests that are
\* the same but for their scope arrays
SameButScopes ==
    /\ calls = 2
    /\ last.request.account = prev.request.account
    /\ last.request.authority = prev.request.authority
    /\ last.response = prev.response
    /\ last.options = prev.options

\* C8: the same (request, response, options) ingested twice in succession gives
\* records with identical entity keys, and the second call overwrites the
\* entries of the first: the storage holds the same keys, and as many entities,
\* after the second call as after the first.
C8_Idempotent ==
    (SameButScopes /\ last.request.scopes = prev.request.scopes /\ prev.error = None) =>
        /\ Succeeded
        /\ RecordKeys(last.record[1]) = RecordKeys(prev.record[1])
        /\ StorageKeys(storage) = StorageKeys(last.before)
        /\ StorageSizes(storage) = StorageSizes(last.before)

\* C8 witness: the second of two equal calls, made later than the first, has
\* replaced the access token of the first by one with a later expiry
C8_Witness ==
    /\ SameButScopes
    /\ last.request.scopes = prev.request.scopes
    /\ prev.error = None
    /\ Succeeded
    /\ last.time > prev.time
    /\ last.record[1].accessToken # None
    /\ last.record[1].accessToken[1] # prev.record[1].accessToken[1]
    /\ last.record[1].refreshToken # None
    /\ storage.accessTokens = {last.record[1].accessToken[1]}

----------------------------------------------------------------------------
(* C10 *)

\* the scope names of a scope array, letter case aside
ScopeNamesOf(scopes) == {Lower(scopes[i]) : i \in DOMAIN scopes}

----------------------------------------------------------------------------
(* BaseInteractionClient: its collaborators, at their interface *)

\* accountEntity.getAccountInfo(): the AccountInfo of a stored account
getAccountInfo(e) ==
    [homeAccountId |-> e.homeAccountId, environment |-> e.environment,
     tenantId |-> e.realm]

\* AccountEntity.accountInfoIsEqual(accountA, accountB, false): both are there
\* and their identity fields agree
accountInfoIsEqual(accountA, accountB) ==
    accountA # None /\ accountB # None /\ accountA[1] = accountB[1]

\* AccountEntity.generateAccountCacheKey(accountInfo)
generateAccountCacheKey(account) ==
    <<Lower(account.homeAccountId), Lower(account.environment), Lower(account.tenantId)>>

\* the storage holds an account under the key
hasAccount(st, key) == \E e \in st.accounts : generateAccountKey(e) = key

\* browserStorage.removeAccount(key): the account and the credentials that
\* belong to it leave the storage
removeAccount(st, key) ==
    LET gone == {e \in st.accounts : generateAccountKey(e) = key}
        owned(x) == \E e \in gone : /\ x.homeAccountId = e.homeAccountId
                                    /\ x.environment = e.environment
    IN  [accounts |-> st.accounts \ gone,
         idTokens |-> {x \in st.idTokens : ~owned(x)},
         accessTokens |-> {x \in st.accessTokens : ~owned(x)},
         refreshTokens |-> {x \in st.refreshTokens : ~owned(x)}]

\* the collaborator calls of clearCacheOnLogout, any of which may throw
LogoutCalls ==
    {"getActiveAccount", "setActiveAccount", "removeAccount", "clear", "clearKeystore"}

\* a collaborator call as the logout made it: its name, its argument if it is
\* a removal, and whether it returned
Made(call, arg, ok) == [call |-> call, arg |-> arg, ok |-> ok]

----------------------------------------------------------------------------
(* BaseInteractionClient.clearCacheOnLogout *)

\* C12 mutant: the marker is cleared whenever an account is logged out
clearsActiveAccountAlways(account, active) == TRUE

\* the test of line 51: the account given is the active account
clearsActiveAccount(account, active) == accountInfoIsEqual(Some(account), active)

\* C14 mutant: the key store is cleared whether or not clear() returned
afterClearRegardless(ok) == "clearKeystore"

\* where the no-account branch goes when clear() has settled: on to
\* clearKeystore(), or into the catch block
afterClear(ok) == IF ok THEN "clearKeystore" ELSE "done"

\* the call clearCacheOnLogout(account), up to its first await; fault names the
\* collaborator call that throws during this logout, if any
clearCacheOnLogout(account, fault) ==
    /\ logout.pc = "idle"
    /\ LET call == [pc |-> "done", account |-> account, fault |-> fault,
                    before |-> [storage |-> storage, activeAccount |-> activeAccount,
                                keystore |-> keystore],
                    made |-> <<>>, logged |-> <<>>, outcome |-> "pending"]
           got == Made("getActiveAccount", None, TRUE)
       IN  IF account # None
           THEN IF fault = "getActiveAccount"
                THEN /\ logout' = [call EXCEPT !.outcome = "rejected",
                                     !.made = <<Made("getActiveAccount", None, FALSE)>>]
                     /\ UNCHANGED activeAccount
                ELSE IF clearsActiveAccount(account[1], activeAccount)
                THEN IF fault = "setActiveAccount"
                     THEN /\ logout' = [call EXCEPT !.outcome = "rejected",
                                          !.made = <<got, Made("setActiveAccount", None, FALSE)>>]
                          /\ UNCHANGED activeAccount
                     ELSE /\ logout' = [call EXCEPT !.pc = "removeAccount",
                                          !.made = <<got, Made("setActiveAccount", None, TRUE)>>,
                                          !.logged = <<"Setting active account to null">>]
                          /\ activeAccount' = None
                ELSE /\ logout' = [call EXCEPT !.pc = "removeAccount", !.made = <<got>>]
                     /\ UNCHANGED activeAccount
           ELSE /\ logout' = [call EXCEPT !.pc = "clear"]
                /\ UNCHANGED activeAccount
    /\ UNCHANGED <<cacheVars, storage, keystore, requestVars, taskVars>>

\* await this.browserStorage.removeAccount(key) settles, and the call ends
awaitRemoveAccount ==
    /\ logout.pc = "removeAccount"
    /\ LET key == generateAccountCacheKey(logout.account[1])
           ok == logout.fault # "removeAccount" /\ hasAccount(storage, key)
       IN  /\ storage' = IF ok THEN removeAccount(storage, key) ELSE storage
           /\ logout' = [logout EXCEPT
                !.pc = "done", !.outcome = "resolved",
                !.made = Append(@, Made("removeAccount", Some(key), ok)),
                !.logged = Append(@,
                    IF ok THEN "Cleared cache items belonging to the account provided in the logout request."
                    ELSE "Account provided in logout request was not found. Local cache unchanged.")]
    /\ UNCHANGED <<cacheVars, activeAccount, keystore, requestVars, taskVars>>

\* await this.browserStorage.clear() settles
awaitClear ==
    /\ logout.pc = "clear"
    /\ LET ok == logout.fault # "clear"
       IN  /\ storage' = IF ok THEN EmptyStorage ELSE storage
           /\ activeAccount' = IF ok THEN None ELSE activeAccount
           /\ logout' = [logout EXCEPT
                !.pc = afterClear(ok),
                !.outcome = IF afterClear(ok) = "done" THEN "resolved" ELSE @,
                !.made = Append(@, Made("clear", None, ok)),
                !.logged = IF ok THEN @
                    ELSE Append(@, "Attempted to clear all MSAL cache items and failed. Local cache unchanged.")]
    /\ UNCHANGED <<cacheVars, keystore, requestVars, taskVars>>

\* await this.browserCrypto.clearKeystore() settles, and the call ends
awaitClearKeystore ==
    /\ logout.pc = "clearKeystore"
    /\ LET ok == logout.fault # "clearKeystore"
       IN  /\ keystore' = IF ok THEN {} ELSE keystore
           /\ logout' = [logout EXCEPT
                !.pc = "done", !.outcome = "resolved",
                !.made = Append(@, Made("clearKeystore", None, ok)),
                !.logged = IF ok THEN @
                    ELSE Append(@, "Attempted to clear all MSAL cache items and failed. Local cache unchanged.")]
    /\ UNCHANGED <<cacheVars, storage, activeAccount, requestVars, taskVars>>


----------------------------------------------------------------------------
(* Logging out of a cache the application has signed in to *)

\* the accounts a sign-in of SignIn leaves in the storage
OptionsAccount ==
    [homeAccountId |-> "uid-o.utid-o", environment |-> "login.example.com",
     tenantId |-> "tenant-1"]

ResponseAccount == [OptionsAccount EXCEPT !.homeAccountId = "uid-r.utid-r"]

\* the accounts an application names: the two it may have signed in, and one
\* the cache never held
KnownAccounts == {OptionsAccount, ResponseAccount, SignedInAccount}

\* the application loads the tokens of a sign-in at the authority, for one
\* scope; it does so while no logout is under way
SignIn ==
    /\ logout.pc = "idle"
    /\ calls < 2
    /\ \E request \in {q \in CompleteRequests : q.account = None /\ Len(q.scopes) = 1},
          response \in {r \in CompleteResponses :
                            r.access_token # None /\ r.refresh_token # None},
          options \in {o \in CompleteOptions : o.expiresOn = None},
          t \in now..MaxTime :
            Call(request, response, options, NoFault, t)

\* the application calls setActiveAccount(account) on its own
SetActiveAccount ==
    /\ logout.pc = "idle"
    /\ \E account \in {None} \cup {Some(a) : a \in KnownAccounts} :
            /\ activeAccount # account
            /\ activeAccount' = account
    /\ UNCHANGED <<cacheVars, storage, keystore, logout, requestVars, taskVars>>

\* logout(request) reaches clearCacheOnLogout with the request's account
Logout ==
    \E account \in {None} \cup {Some(a) : a \in KnownAccounts},
       fault \in LogoutCalls \cup {NoFault} :
            clearCacheOnLogout(account, fault)

NextLogout ==
    \/ SignIn
    \/ SetActiveAccount
    \/ Logout
    \/ awaitRemoveAccount
    \/ awaitClear
    \/ awaitClearKeystore

SpecLogout == Init /\ [][NextLogout]_vars

\* the logout was given an account
LogoutOf == logout.pc # "idle" /\ logout.account # None

\* the logout was given no account
LogoutOfAll == logout.pc # "idle" /\ logout.account = None

\* the collaborator calls the logout made under a name
MadeOf(call) == {i \in DOMAIN logout.made : logout.made[i].call = call}

\* the removal the logout attempted failed
RemovalFailed ==
    /\ LogoutOf
    /\ logout.pc = "done"
    /\ \E i \in MadeOf("removeAccount") : ~logout.made[i].ok

\* C11: clearCacheOnLogout never propagates a failure: whichever collaborator
\* call fails (getActiveAccount, setActiveAccount, removeAccount, clear,
\* clearKeystore), in either branch, the call completes normally.
C11_NeverPropagates ==
    logout.pc = "done" => logout.outcome = "resolved"

\* C13: when the removal of the account fails, the storage after the call, its
\* entities and its active-account marker, is the storage before the call.
C13_FailedRemovalChangesNothing ==
    RemovalFailed =>
        /\ storage = logout.before.storage
        /\ activeAccount = logout.before.activeAccount


\* C12: a logout of an account whose marker calls return sets the
\* active-account marker to null exactly when the account given is the active
\* account, and leaves the marker as it was otherwise; either way it goes on to
\* the removal, under the key derived from the account given.
C12_MarkerClearedIffActive ==
    (LogoutOf /\ logout.outcome # "rejected") =>
        /\ activeAccount =
                IF logout.before.activeAccount = logout.account THEN None
                ELSE logout.before.activeAccount
        /\ logout.pc \in {"removeAccount", "done"}
        /\ logout.pc = "done" =>
                \E i \in MadeOf("removeAccount") :
                    logout.made[i].arg = Some(generateAccountCacheKey(logout.account[1]))

\* the active account was logged out and removed: the marker is null
C12_Witness ==
    /\ LogoutOf
    /\ logout.pc = "done"
    /\ logout.before.activeAccount = logout.account
    /\ activeAccount = None
    /\ \E i \in MadeOf("removeAccount") : logout.made[i].ok
    /\ storage # logout.before.storage

----------------------------------------------------------------------------
(* BaseInteractionClient: the constructor and initializeBaseRequest *)

\* AuthenticationScheme.BEARER, .POP and .SSH
Bearer == "Bearer"

Pop == "pop"

Ssh == "ssh-cert"

\* ClientConfigurationError.createMissingSshJwkError and createMissingSshKidError
MissingSshJwk == "missing_ssh_jwk"

MissingSshKid == "missing_ssh_kid"

\* this.config.auth.authority
configAuthority == "https://login.microsoftonline.com/common"

\* this.browserCrypto.createNewGuid()
createNewGuid == "guid-1"

\* this.browserCrypto.hashString(claims)
hashString(claims) == CASE claims = "claims-1" -> "hash-of-claims-1" [] OTHER -> "hash-of-nothing"

\* C16 mutant: the request's own correlation id, where it has one, survives
requestCorrelationIdKept(request, own) ==
    IF TruthyStr(request.correlationId) THEN request.correlationId ELSE Some(own)

\* the correlationId of the validated request (line 88)
requestCorrelationId(request, own) == Some(own)

\* C15 mutant: the key id is looked at before the key
checkSshKidFirst(request) ==
    IF ~TruthyStr(request.sshKid) THEN Some(MissingSshKid)
    ELSE IF ~TruthyStr(request.sshJwk) THEN Some(MissingSshJwk)
    ELSE None

\* the checks of an SSH request (lines 99-104): the error thrown, if any
checkSsh(request) ==
    IF ~TruthyStr(request.sshJwk) THEN Some(MissingSshJwk)
    ELSE IF ~TruthyStr(request.sshKid) THEN Some(MissingSshKid)
    ELSE None

\* initializeBaseRequest(request) of a client whose correlation id is own: the
\* error thrown or the validated request returned, and whether hashString ran
initializeBaseRequest(request, own) ==
    LET authority == IF TruthyStr(request.authority) THEN request.authority
                     ELSE Some(configAuthority)
        scopes == IF request.scopes # None THEN request.scopes ELSE Some(<<>>)
        validatedRequest ==
            [correlationId |-> requestCorrelationId(request, own),
             authority |-> authority,
             scopes |-> scopes,
             authenticationScheme |-> request.authenticationScheme,
             sshJwk |-> request.sshJwk,
             sshKid |-> request.sshKid,
             claims |-> request.claims,
             requestedClaimsHash |-> None]
        thrown ==
            IF ~TruthyStr(validatedRequest.authenticationScheme) THEN None
            ELSE IF validatedRequest.authenticationScheme = Some(Ssh) THEN checkSsh(request)
            ELSE None
        withScheme ==
            IF ~TruthyStr(validatedRequest.authenticationScheme)
            THEN [validatedRequest EXCEPT !.authenticationScheme = Some(Bearer)]
            ELSE validatedRequest
        hashes == TruthyStr(request.claims)
    IN  IF thrown # None
        THEN [error |-> thrown, value |-> None, hashed |-> FALSE]
        ELSE [error |-> None,
              value |-> Some(IF hashes
                             THEN [withScheme EXCEPT !.requestedClaimsHash =
                                        Some(hashString(request.claims[1]))]
                             ELSE withScheme),
              hashed |-> hashes]

\* Partial<BaseAuthRequest>: correlationId?, authority?, scopes?,
\* authenticationScheme?, sshJwk?, sshKid?, claims?
BaseRequests ==
    [correlationId : {None, Some("request-correlation-id")},
     authority : {None, Some("https://login.example.com/common")},
     scopes : {None, Some(<<"read">>)},
     authenticationScheme : {None, Some(Bearer), Some(Pop), Some(Ssh)},
     sshJwk : {None, Some("jwk-1")},
     sshKid : {None, Some("kid-1")},
     claims : {None, Some(""), Some("claims-1")}]

\* new <InteractionClient>(..., correlationId?): line 41
NewClient ==
    /\ ~interactionClient.constructed
    /\ \E given \in {None, Some(""), Some("client-correlation-id")} :
            interactionClient' =
                [constructed |-> TRUE, given |-> given,
                 correlationId |-> IF TruthyStr(given) THEN given[1] ELSE createNewGuid]
    /\ UNCHANGED <<cacheVars, storage, activeAccount, keystore, logout, baseRequest, silent,
                   taskVars>>

\* the client normalizes a request
InitializeBaseRequest ==
    /\ interactionClient.constructed
    /\ \E request \in BaseRequests :
        LET r == initializeBaseRequest(request, interactionClient.correlationId)
        IN  baseRequest' =
                [called |-> TRUE, request |-> request, error |-> r.error,
                 value |-> r.value, hashed |-> r.hashed,
                 issued |-> baseRequest.issued \cup
                            (IF r.error = None THEN {r.value[1].correlationId} ELSE {})]
    /\ UNCHANGED <<cacheVars, storage, activeAccount, keystore, logout, interactionClient,
                   silent, taskVars>>

NextRequest == NewClient \/ InitializeBaseRequest

SpecRequest == Init /\ [][NextRequest]_vars

\* the scheme the last request asked for, if it asked for one
SchemeAsked == baseRequest.request.authenticationScheme

\* C15: a normalized request has the scheme Bearer when the input set none and
\* the input's scheme otherwise; an SSH request fails with MissingSshJwk when it
\* has no sshJwk and otherwise with MissingSshKid when it has no sshKid; a
\* failed call returns no request and computes no claims hash.
C15_SchemeAndSshChecks ==
    baseRequest.called =>
        /\ (baseRequest.error = None /\ SchemeAsked = None) =>
                baseRequest.value[1].authenticationScheme = Some(Bearer)
        /\ (baseRequest.error = None /\ SchemeAsked # None) =>
                baseRequest.value[1].authenticationScheme = SchemeAsked
        /\ (SchemeAsked = Some(Ssh) /\ baseRequest.request.sshJwk = None) =>
                baseRequest.error = Some(MissingSshJwk)
        /\ (SchemeAsked = Some(Ssh) /\ baseRequest.request.sshJwk # None
                /\ baseRequest.request.sshKid = None) =>
                baseRequest.error = Some(MissingSshKid)
        /\ (SchemeAsked = Some(Ssh) /\ baseRequest.request.sshJwk # None
                /\ baseRequest.request.sshKid # None) =>
                baseRequest.error = None
        /\ SchemeAsked # Some(Ssh) => baseRequest.error = None
        /\ baseRequest.error # None =>
                baseRequest.value = None /\ ~baseRequest.hashed

\* an SSH request with claims and neither key nor key id failed on the key
C15_Witness ==
    /\ baseRequest.called
    /\ SchemeAsked = Some(Ssh)
    /\ baseRequest.request.sshJwk = None
    /\ baseRequest.request.sshKid = None
    /\ baseRequest.request.claims = Some("claims-1")
    /\ baseRequest.error = Some(MissingSshJwk)
    /\ ~baseRequest.hashed

\* C16: every request the client returns carries the client's correlation id,
\* the constructor's argument or else the GUID made at construction, whatever
\* correlation id the input had; all requests of the client carry that one id.
C16_OwnCorrelationId ==
    LET own == IF interactionClient.given \notin {None, Some("")}
               THEN interactionClient.given ELSE Some(createNewGuid)
    IN  /\ (baseRequest.called /\ baseRequest.error = None) =>
                baseRequest.value[1].correlationId = own
        /\ \A id \in baseRequest.issued : id = own

\* a request that came with a correlation id of its own left with the GUID of
\* a client constructed without one
C16_Witness ==
    /\ baseRequest.called
    /\ baseRequest.error = None
    /\ interactionClient.given = None
    /\ baseRequest.request.correlationId = Some("request-correlation-id")
    /\ baseRequest.value[1].correlationId = Some(createNewGuid)
    /\ baseRequest.issued = {Some(createNewGuid)}


----------------------------------------------------------------------------
(* C17, C19, C20: TokenCache again *)

\* the access-token entity the last call handed to its setter, in a sequence
AccessTokenWritten ==
    [i \in 1..Cardinality(WritesOf("setAccessTokenCredential")) |->
        last.writes[CHOOSE j \in WritesOf("setAccessTokenCredential") : TRUE].entity]

\* C17: a successful call that stores an access token stores as its expiry
\* options.expiresOn when that option is given and otherwise the time of the
\* call plus response.expires_in, and as its extended expiry
\* options.extendedExpiresOn as given.
C17_StoredExpiry ==
    (last.called /\ Succeeded /\ Len(AccessTokenWritten) = 1) =>
        /\ AccessTokenWritten[1].expiresOn =
                IF last.options.expiresOn # None THEN last.options.expiresOn
                ELSE Some(last.time + last.response.expires_in[1])
        /\ AccessTokenWritten[1].extendedExpiresOn = last.options.extendedExpiresOn

\* the preconditions of ingestion the last call violates, by their numbers
Violated ==
    {k \in 1..5 :
        CASE k = 1 -> ~TruthyStr(last.response.id_token)
          [] k = 2 -> last.request.account = None /\ last.request.authority = None
          [] k = 3 -> /\ AuthorityPath
                      /\ last.options.clientInfo = None
                      /\ last.response.client_info = None
          [] k = 4 -> /\ last.response.access_token # None
                      /\ (last.response.expires_in = None
                            \/ last.options.extendedExpiresOn = None)
          [] k = 5 -> ~isBrowserEnvironment}

\* the errors that report the violation of a precondition
ErrorsOf(k) ==
    CASE k = 1 -> {MissingIdToken}
      [] k = 2 -> {MissingAccountOrAuthority}
      [] k = 3 -> {MissingClientInfo}
      [] k = 4 -> MissingExpiry
      [] k = 5 -> {UnsupportedEnvironment}

\* C19 as claimed: the five preconditions are evaluated in the order of their
\* numbers, so a call that violates any of them fails with the error of the
\* lowest-numbered one it violates (said of the calls that have a home-account
\* identity whenever they pass the first three).
C19_AsClaimed ==
    (/\ last.called
     /\ Violated # {}
     /\ (Violated \cap {1, 2, 3} = {} => IdentityEstablished)) =>
        /\ last.error # None
        /\ last.error[1] \in ErrorsOf(CHOOSE k \in Violated : \A j \in Violated : k <= j)

\* C19: the checks are evaluated in the order ID token, account or authority,
\* client-info, home-account identity, environment, expiry: a call fails with
\* the error of the first of them it violates (with MissingExpiry for
\* expires_in before extendedExpiresOn), and succeeds when it violates none.
C19_OrderOfChecks ==
    last.called =>
        last.error =
            IF 1 \in Violated THEN Some(MissingIdToken)
            ELSE IF 2 \in Violated THEN Some(MissingAccountOrAuthority)
            ELSE IF 3 \in Violated THEN Some(MissingClientInfo)
            ELSE IF ~IdentityEstablished THEN Some(UnresolvedIdentity)
            ELSE IF 5 \in Violated THEN Some(UnsupportedEnvironment)
            ELSE IF 4 \in Violated
                 THEN IF last.response.expires_in = None THEN Some(MissingExpiresIn)
                      ELSE Some(MissingExtendedExpiresOn)
            ELSE None

\* an access token without expires_in outside a browser: the environment is
\* what the call reports
C19_Witness ==
    /\ last.called
    /\ Violated = {4, 5}
    /\ last.response.expires_in = None
    /\ IdentityEstablished
    /\ Failed(UnsupportedEnvironment)

\* the place of a setter in the order of the writes
SetterRank(setter) ==
    CASE setter = "setAccount" -> 1
      [] setter = "setIdTokenCredential" -> 2
      [] setter = "setAccessTokenCredential" -> 3
      [] setter = "setRefreshTokenCredential" -> 4

\* C20: the writes of a call are made in the order account, ID token, access
\* token, refresh token, and are not undone: a call in a browser that fails with
\* MissingExpiry has written the account and the ID token, which are in the
\* storage, has written no access token and no refresh token, and returns no
\* record.
C20_WritesInOrderNotUndone ==
    last.called =>
        /\ \A i, j \in DOMAIN last.writes :
                i < j => SetterRank(last.writes[i].setter) < SetterRank(last.writes[j].setter)
        /\ (isBrowserEnvironment /\ last.error # None /\ last.error[1] \in MissingExpiry) =>
                /\ Len(last.writes) = 2
                /\ last.writes[1].setter = "setAccount"
                /\ last.writes[1].entity \in storage.accounts
                /\ last.writes[2].setter = "setIdTokenCredential"
                /\ last.writes[2].entity \in storage.idTokens
                /\ storage.accessTokens = {}
                /\ storage.refreshTokens = {}
                /\ last.record = None

\* a response with all three tokens and no expires_in, in a browser: the
\* account and the ID token are stored, the refresh token is not
C20_Witness ==
    /\ last.called
    /\ isBrowserEnvironment
    /\ last.response.refresh_token # None
    /\ Failed(MissingExpiresIn)
    /\ Cardinality(storage.accounts) = 1
    /\ Cardinality(storage.idTokens) = 1
    /\ storage.refreshTokens = {}
    /\ last.record = None


----------------------------------------------------------------------------
(* SilentAuthCodeClient.acquireToken, as its tests describe it *)

\* BrowserAuthError.createAuthCodeRequiredError
AuthCodeRequired == "auth_code_required"

\* TEST_TOKEN_RESPONSE.body: what the token endpoint answers
TokenResponse ==
    [id_token |-> Some("id-token-1"), client_info |-> Some("client-info-response"),
     access_token |-> Some("AT1"), expires_in |-> Some(3600),
     refresh_token |-> Some("RT1")]

\* the types of token storeInCache speaks of
TokenTypes == {"idToken", "accessToken", "refreshToken"}

\* request.storeInCache: absent, or a flag per type, each absent, true or false
StoreInCacheOptions ==
    {None} \cup {Some(f) : f \in [TokenTypes -> {None, Some(TRUE), Some(FALSE)}]}

\* the flag the request gives for a type, if any
storeInCacheFlag(request, type) ==
    IF request.storeInCache = None THEN None ELSE request.storeInCache[1][type]

\* C18 mutant: a token is stored only where the request asks for it
storesInCacheOnRequest(request, type) == storeInCacheFlag(request, type) = Some(TRUE)

\* a token of the type is stored unless the request turns it off
storesInCache(request, type) == storeInCacheFlag(request, type) # Some(FALSE)

\* acquireToken(request) on the storage st at time t: the error it rejects
\* with, or the result it resolves with, and the storage it leaves
acquireToken(st, request, t) ==
    IF ~TruthyStr(request.code)
    THEN [storage |-> st, error |-> Some(AuthCodeRequired), result |-> None]
    ELSE LET authority == Authority("https://login.example.com/common")
             idAuthToken == AuthToken(TokenResponse.id_token[1])
             homeAccountId == generateHomeAccountId(TokenResponse.client_info[1],
                                                    authority.authorityType, idAuthToken)
             environment == authority.hostnameAndPort
             account == createAccount(TokenResponse.client_info[1], homeAccountId,
                                      idAuthToken, environment)
             idToken == createIdTokenEntity(homeAccountId, environment,
                                            TokenResponse.id_token[1], clientId,
                                            idAuthToken.tid)
             accessToken == createAccessTokenEntity(homeAccountId, environment,
                                TokenResponse.access_token[1], clientId, idAuthToken.tid,
                                printScopes(request.scopes),
                                Some(t + TokenResponse.expires_in[1]),
                                Some(t + TokenResponse.expires_in[1]))
             refreshToken == createRefreshTokenEntity(homeAccountId, environment,
                                TokenResponse.refresh_token[1], clientId)
             s1 == setAccount(st, account)
             s2 == IF storesInCache(request, "idToken")
                   THEN setIdTokenCredential(s1, idToken) ELSE s1
             s3 == IF storesInCache(request, "accessToken")
                   THEN setAccessTokenCredential(s2, accessToken) ELSE s2
             s4 == IF storesInCache(request, "refreshToken")
                   THEN setRefreshTokenCredential(s3, refreshToken) ELSE s3
         IN  [storage |-> s4, error |-> None,
              result |-> Some([idToken |-> TokenResponse.id_token[1],
                               accessToken |-> TokenResponse.access_token[1],
                               account |-> getAccountInfo(account),
                               scopes |-> request.scopes, fromCache |-> FALSE])]

\* the application redeems an authorization code silently, on a new cache
AcquireToken ==
    /\ ~silent.called
    /\ calls = 0
    /\ \E code \in {"", "test-code"}, scopes \in ScopeLists,
          storeInCache \in StoreInCacheOptions, t \in now..MaxTime :
        LET request == [code |-> Some(code), scopes |-> scopes,
                        storeInCache |-> storeInCache]
            r == acquireToken(storage, request, t)
        IN  /\ storage' = r.storage
            /\ now' = t
            /\ silent' = [called |-> TRUE, request |-> request, before |-> storage,
                          error |-> r.error, result |-> r.result]
    /\ UNCHANGED <<isBrowserEnvironment, calls, last, prev, activeAccount, keystore,
                   logout, interactionClient, baseRequest, taskVars>>

NextSilent == AcquireToken

SpecSilent == Init /\ [][NextSilent]_vars

\* the number of entries the cache holds of a type of token (getTokenKeys)
TokenKeyCount(type) ==
    CASE type = "idToken" -> Cardinality(storage.idTokens)
      [] type = "accessToken" -> Cardinality(storage.accessTokens)
      [] type = "refreshToken" -> Cardinality(storage.refreshTokens)

\* the last acquireToken turned off the storing of one type, and of no other
TurnedOffOnly(type) ==
    /\ silent.called
    /\ silent.error = None
    /\ storeInCacheFlag(silent.request, type) = Some(FALSE)
    /\ \A other \in TokenTypes \ {type} :
            storeInCacheFlag(silent.request, other) # Some(FALSE)

\* C18: for each type of token, a silent auth-code acquireToken on a new cache
\* whose storeInCache turns off that type (and no other) returns a result that
\* still has the ID token and the access token of the response, and leaves in
\* the cache no entry of that type and exactly one of each other type.
C18_StoreInCacheOff ==
    \A type \in TokenTypes :
        TurnedOffOnly(type) =>
            /\ silent.result # None
            /\ silent.result[1].idToken = "id-token-1"
            /\ silent.result[1].accessToken = "AT1"
            /\ TokenKeyCount(type) = 0
            /\ \A other \in TokenTypes \ {type} : TokenKeyCount(other) = 1

\* the access token was turned off and nothing else said: the result has it,
\* the cache has an ID token and a refresh token only
C18_Witness ==
    /\ TurnedOffOnly("accessToken")
    /\ storeInCacheFlag(silent.request, "idToken") = None
    /\ storeInCacheFlag(silent.request, "refreshToken") = None
    /\ silent.result[1].accessToken = "AT1"
    /\ storage.accessTokens = {}
    /\ Cardinality(storage.idTokens) = 1
    /\ Cardinality(storage.refreshTokens) = 1


----------------------------------------------------------------------------
(* C21 *)

\* the entity belongs to the account: same homeAccountId, same environment
BelongsTo(e, account) ==
    e.homeAccountId = account.homeAccountId /\ e.environment = account.environment

\* C21: in the record of a successful call, and among the entities the call
\* wrote, the ID token, the access token and the refresh token carry the
\* homeAccountId and the environment of the record's account, and the ID token
\* and the access token carry one realm; on the account path and on the
\* authority path.
C21_ForeignKeys ==
    (last.called /\ Succeeded) =>
        LET record == last.record[1]
            account == record.account[1]
        IN  /\ BelongsTo(record.idToken[1], account)
            /\ record.accessToken # None =>
                    /\ BelongsTo(record.accessToken[1], account)
                    /\ record.accessToken[1].realm = record.idToken[1].realm
            /\ record.refreshToken # None => BelongsTo(record.refreshToken[1], account)
            /\ \A i \in DOMAIN last.writes : BelongsTo(last.writes[i].entity, account)
            /\ \A x \in storage.idTokens \cup storage.accessTokens \cup storage.refreshTokens :
                    BelongsTo(x, account)

\* a request with an account and an authority, all three tokens stored: they
\* carry the account's identity and environment, not the authority's
C21_Witness ==
    /\ last.called
    /\ Succeeded
    /\ last.request.account = Some(SignedInAccount)
    /\ last.request.authority # None
    /\ Len(last.writes) = 4
    /\ \A x \in storage.refreshTokens : x.environment = SignedInAccount.environment
    /\ Cardinality(storage.refreshTokens) = 1


----------------------------------------------------------------------------
(* C22, C23 *)

\* client-info is available to the last call, in its options or its response
ClientInfoAvailable ==
    last.options.clientInfo # None \/ last.response.client_info # None

\* C22: whenever the call stores an account, the account is a full one (it
\* carries client-info) if client-info is available in options.clientInfo or
\* response.client_info, and a generic one only if none is available; on the
\* account path as on the authority path.
C22_FullAccountWhenClientInfo ==
    (last.called /\ Len(AccountWritten) = 1) =>
        (AccountWritten[1].clientInfo # None <=> ClientInfoAvailable)

\* C23: when the request carries an account, every entity the call writes has
\* the homeAccountId and the environment of that account, and the ID token and
\* the access token its tenantId as realm; the authority string of the request
\* and the client-info of the options and the response are not looked at: the
\* account stored is a generic one.
C23_AccountPathVerbatim ==
    (last.called /\ last.request.account # None) =>
        LET account == last.request.account[1]
        IN  \A i \in DOMAIN last.writes :
                LET e == last.writes[i].entity
                IN  /\ e.homeAccountId = account.homeAccountId
                    /\ e.environment = account.environment
                    /\ last.writes[i].setter \in {"setIdTokenCredential",
                                                  "setAccessTokenCredential"} =>
                            e.realm = account.tenantId
                    /\ last.writes[i].setter = "setAccount" => e.clientInfo = None

\* the request has an account and an authority, the options and the response
\* have client-info, and all four entities are the account's
C23_Witness ==
    /\ last.called
    /\ last.request.account = Some(SignedInAccount)
    /\ last.request.authority # None
    /\ last.options.clientInfo # None
    /\ last.response.client_info # None
    /\ Len(last.writes) = 4
    /\ \A i \in DOMAIN last.writes :
            last.writes[i].entity.homeAccountId = "uid-a.utid-a"
    /\ Cardinality(storage.accessTokens) = 1


----------------------------------------------------------------------------
(* C24 *)

\* the last call, made in a browser with complete inputs, reaches the setter:
\* the account and the ID token are always written, the access token and the
\* refresh token when the response has them
CallsSetter(setter) ==
    /\ last.called
    /\ isBrowserEnvironment
    /\ CASE setter = "setAccessTokenCredential" -> last.response.access_token # None
         [] setter = "setRefreshTokenCredential" -> last.response.refresh_token # None
         [] OTHER -> setter \in StorageSetters

\* C24: when a storage write throws during ingestion, the call fails with that
\* failure and returns no record; the entities written before it stay in the
\* storage, and neither the failed entity nor any later one is written.
C24_WriteFailurePropagates ==
    /\ \A setter \in StorageSetters :
            (CallsSetter(setter) /\ last.fault = setter) => Failed(StorageFailure)
    /\ (last.called /\ Failed(StorageFailure)) =>
            /\ last.record = None
            /\ \A i \in DOMAIN last.writes :
                    SetterRank(last.writes[i].setter) < SetterRank(last.fault)
            /\ \A setter \in StorageSetters :
                    (CallsSetter(setter) /\ SetterRank(setter) < SetterRank(last.fault))
                        => WritesOf(setter) # {}
            /\ storage.accounts = {last.writes[i].entity : i \in WritesOf("setAccount")}
            /\ storage.idTokens = {last.writes[i].entity : i \in WritesOf("setIdTokenCredential")}
            /\ storage.accessTokens =
                    {last.writes[i].entity : i \in WritesOf("setAccessTokenCredential")}
            /\ storage.refreshTokens = {}

\* the write of the access token failed: the account and the ID token are in
\* the storage, the refresh token of the response is not
C24_Witness ==
    /\ last.called
    /\ last.fault = "setAccessTokenCredential"
    /\ Failed(StorageFailure)
    /\ last.response.refresh_token # None
    /\ Cardinality(storage.accounts) = 1
    /\ Cardinality(storage.idTokens) = 1
    /\ storage.refreshTokens = {}
    /\ last.record = None


----------------------------------------------------------------------------
(* C25: calls whose inputs may yield no identity *)

\* requests that may name an ADFS authority, for one scope
IdentityRequests ==
    [account : {None, Some(SignedInAccount), Some(AccountWithoutId)},
     authority : {None, Some("https://login.example.com/common"),
                  Some("https://adfs.example.com/adfs")},
     scopes : {l \in ScopeLists : Len(l) = 1}]

\* responses whose ID token may lack a sub claim and whose client-info may
\* decode to no uid and utid
IdentityResponses ==
    [id_token : {Some("id-token-1"), Some("id-token-no-sub")},
     client_info : {None, Some("client-info-response"), Some("client-info-empty")},
     access_token : {None, Some("AT1")},
     expires_in : {Some(3600)},
     refresh_token : {None, Some("RT1")}]

\* options whose client-info may decode to no uid and utid
IdentityOptions ==
    [clientInfo : {None, Some("client-info-options"), Some("client-info-empty")},
     expiresOn : {None},
     extendedExpiresOn : {Some(7200)}]

\* one call loadExternalTokens on the new cache, with such inputs
LoadTokensOfAnyIdentity ==
    /\ calls = 0
    /\ \E request \in IdentityRequests, response \in IdentityResponses,
          options \in IdentityOptions, t \in now..MaxTime :
            Call(request, response, options, NoFault, t)

NextIdentity == LoadTokensOfAnyIdentity

SpecIdentity == Init /\ [][NextIdentity]_vars

\* C25: a call that passes the ID-token, account-or-authority and client-info
\* checks but has no home-account identity (its account's homeAccountId is
\* empty, or the derivation on the authority path yields none) fails with
\* UnresolvedIdentity and writes nothing, in a browser or not.
C25_UnresolvedIdentity ==
    (PassesInputChecks /\ ~IdentityEstablished) =>
        (Failed(UnresolvedIdentity) /\ NotWritten)

\* in a browser, at an ADFS authority, with client-info and an ID token without
\* a sub claim: no identity is derived and nothing is written
C25_Witness ==
    /\ last.called
    /\ isBrowserEnvironment
    /\ last.request.account = None
    /\ last.request.authority = Some("https://adfs.example.com/adfs")
    /\ last.options.clientInfo = Some("client-info-options")
    /\ last.response.id_token = Some("id-token-no-sub")
    /\ last.response.access_token # None
    /\ Failed(UnresolvedIdentity)
    /\ storage = EmptyStorage


----------------------------------------------------------------------------
(* C26: ingestion calls of concurrent tasks, and a logout *)

\* C26 mutant: the call awaits the write of the ID token
suspendsAfterIdToken(setter) == setter = "setIdTokenCredential"

\* whether loadExternalTokens gives up the stack after a write: it is not an
\* async function and awaits nothing, so it never does
suspendsAfterWrite(setter) == FALSE

\* what the token endpoint answered the task: tokens of its own for one identity
TaskResponses(i) ==
    [id_token : {Some("id-token-1")},
     client_info : {Some("client-info-response")},
     access_token : {None, Some(IF i = "first" THEN "AT1" ELSE "AT2")},
     expires_in : {Some(3600)},
     refresh_token : {None, Some(IF i = "first" THEN "RT1" ELSE "RT2")}]

\* the requests of the tasks: at the authority, for one scope
TaskRequests ==
    {q \in CompleteRequests : q.account = None /\ Len(q.scopes) = 1}

\* the options of the tasks
TaskOptions ==
    {o \in CompleteOptions : o.clientInfo = None /\ o.expiresOn = None}

\* the task calls loadExternalTokens: the call goes on the stack, and its
\* checks decide what it will write and how it will end
BeginLoad(i) ==
    /\ running = None
    /\ tasks[i].pc = "new"
    /\ \E request \in TaskRequests, response \in TaskResponses(i), options \in TaskOptions :
        LET r == loadExternalTokens(storage, request, response, options, NoFault, now)
        IN  tasks' = [tasks EXCEPT ![i] =
                        [pc |-> "loading", request |-> request, response |-> response,
                         options |-> options, todo |-> r.writes, error |-> r.error,
                         record |-> r.value]]
    /\ running' = Some(i)
    /\ UNCHANGED <<cacheVars, storage, activeAccount, keystore, logout, requestVars, oplog>>


\* the number of collaborator calls the logout has made so far
LogoutCallsMade == IF logout.pc = "idle" THEN 0 ELSE Len(logout.made)

\* the call of the task goes on: it makes its next write, or it has made them
\* all and returns (or throws), leaving the stack
ContinueLoad(i) ==
    /\ tasks[i].pc = "loading"
    /\ running \in {None, Some(i)}
    /\ IF tasks[i].todo = <<>>
       THEN /\ tasks' = [tasks EXCEPT ![i].pc = "done"]
            /\ running' = None
            /\ UNCHANGED <<storage, oplog>>
       ELSE LET w == Head(tasks[i].todo)
            IN  /\ storage' = Write([storage |-> storage, writes |-> <<>>],
                                    w.setter, w.entity, NoFault).storage
                /\ oplog' = Append(oplog, [task |-> i, setter |-> w.setter,
                                           logoutCalls |-> LogoutCallsMade])
                /\ tasks' = [tasks EXCEPT ![i].todo = Tail(@)]
                /\ running' = IF suspendsAfterWrite(w.setter) THEN None ELSE Some(i)
    /\ UNCHANGED <<cacheVars, activeAccount, keystore, logout, requestVars>>

\* a step of the logout, taken while no ingestion call is on the stack
LogoutStep ==
    /\ running = None
    /\ (Logout \/ awaitRemoveAccount \/ awaitClear \/ awaitClearKeystore)

NextConcurrent ==
    \/ \E i \in Ingestions : BeginLoad(i)
    \/ \E i \in Ingestions : ContinueLoad(i)
    \/ LogoutStep

SpecConcurrent == Init /\ [][NextConcurrent]_vars

\* the storage a new cache holds when the call of task i and then the call of
\* task j have run, one after the other
OneAfterTheOther(i, j) ==
    loadExternalTokens(
        loadExternalTokens(EmptyStorage, tasks[i].request, tasks[i].response,
                           tasks[i].options, NoFault, now).storage,
        tasks[j].request, tasks[j].response, tasks[j].options, NoFault, now).storage

\* the other task
Other(i) == CHOOSE j \in Ingestions : j # i

\* C26: the writes of an ingestion call are never interleaved with the writes
\* of another ingestion or with a storage or key-store call of a logout; and
\* when two concurrent ingestions for one identity have ended (and no logout was
\* made), the storage is what running them one after the other leaves, the later
\* writer last.
C26_IngestionIsAtomic ==
    /\ \A j, l \in DOMAIN oplog :
            (j < l /\ oplog[j].task = oplog[l].task) =>
                /\ \A k \in j..l : oplog[k].task = oplog[j].task
                /\ oplog[j].logoutCalls = oplog[l].logoutCalls
    /\ ((\A i \in Ingestions : tasks[i].pc = "done") /\ logout.pc = "idle") =>
            /\ storage \in {OneAfterTheOther(i, Other(i)) : i \in Ingestions}
            /\ oplog # <<>> =>
                    storage = OneAfterTheOther(Other(oplog[Len(oplog)].task),
                                               oplog[Len(oplog)].task)

\* two tasks have loaded an access token and a refresh token each for the same
\* scope: the cache holds those of the second task, which wrote last
C26_Witness ==
    /\ \A i \in Ingestions : tasks[i].pc = "done" /\ tasks[i].error = None
    /\ logout.pc = "idle"
    /\ Len(oplog) = 8
    /\ oplog[1].task = "first"
    /\ tasks["first"].request.scopes = tasks["second"].request.scopes
    /\ {x.secret : x \in storage.accessTokens} = {"AT2"}
    /\ {x.secret : x \in storage.refreshTokens} = {"RT2"}

====
